---- MODULE Spec2Model ----
(***************************************************************************)
(* State-machine model of the EVM transaction fetcher:                     *)
(*   TransactionAnalyzer and DetailedTransactionFetcher                    *)
(*   (src/detailed_tx_fetcher.py, tables of src/constants.py).             *)
(*                                                                         *)
(* Python strings are sequences of one-character strings, so that          *)
(* str.lower() and the substring test `in` are computed, not assumed.      *)
(* Delays are counted in tenths of a second (0.2 s = 2).                   *)
(***************************************************************************)
EXTENDS Integers, Sequences, FiniteSets, TLC

VARIABLES
    pc,                 \* position of the program
    world,              \* the chains as the RPC endpoints serve them
    wallet_addresses,   \* self.wallet_addresses
    selected_chains,    \* self.selected_chains
    max_transactions,   \* self.max_transactions (None, or a number)
    web3_connections,   \* self.web3_connections, in insertion order
    analyzers,          \* self.analyzers: chain -> the analyzer's two caches
    setupIdx,           \* _setup_connections: index into selected_chains
    start_block,        \* fetch_detailed_transactions: local start_block
    end_block,          \* fetch_detailed_transactions: local end_block
    all_transactions,   \* fetch_detailed_transactions: local all_transactions
    chainIdx,           \* position of the loop over web3_connections
    addrIdx,            \* position of the loop over wallet_addresses
    block_num,          \* position of the loop over the block range
    block,              \* the transactions of the block being processed
    txIdx,              \* position of the loop over block.transactions
    request_delay,      \* local request_delay (tenths of a second)
    returned,           \* what the call handed back: "none", "frame", "raised"
    obs                 \* observations of the calls issued (history only)

vars == << pc, world, wallet_addresses, selected_chains, max_transactions,
           web3_connections, analyzers, setupIdx, start_block, end_block,
           all_transactions, chainIdx, addrIdx, block_num, block, txIdx,
           request_delay, returned, obs >>

-----------------------------------------------------------------------------
(* Python values *)

\* None, for the optional integers (block numbers and counts are >= 0)
None == -1

\* a falsy address: tx['to'] of a contract creation
NoAddr == << >>

Min(a, b) == IF a <= b THEN a ELSE b
Max(a, b) == IF a >= b THEN a ELSE b

UpperChars == << "A","B","C","D","E","F","G","H","I","J","K","L","M",
                 "N","O","P","Q","R","S","T","U","V","W","X","Y","Z" >>
LowerChars == << "a","b","c","d","e","f","g","h","i","j","k","l","m",
                 "n","o","p","q","r","s","t","u","v","w","x","y","z" >>

OtherChars == { "0","1","2","3","4","5","6","7","8","9"," ","_" }

Chars == { UpperChars[i] : i \in DOMAIN UpperChars }
           \cup { LowerChars[i] : i \in DOMAIN LowerChars } \cup OtherChars

\* the lower-case form of every character
LowerTable ==
    [ c \in Chars |->
        IF \E i \in DOMAIN UpperChars : UpperChars[i] = c
        THEN LowerChars[CHOOSE i \in DOMAIN UpperChars : UpperChars[i] = c]
        ELSE c ]

LowerChar(c) == LowerTable[c]

\* str.lower()
Lower(s) == [i \in DOMAIN s |-> LowerChar(s[i])]

\* the Python test `needle in hay` on strings
Contains(needle, hay) ==
    \E i \in 0..(Len(hay) - Len(needle)) :
        SubSeq(hay, i + 1, i + Len(needle)) = needle

sUnknown == <<"u", "n", "k", "n", "o", "w", "n">>
sToken == <<"t", "o", "k", "e", "n">>
sUnknownContract == <<"U", "n", "k", "n", "o", "w", "n", " ", "C", "o", "n", "t", "r", "a", "c", "t">>
sUnknownName == <<"U", "n", "k", "n", "o", "w", "n">>
sTokenTransfer == <<"t", "o", "k", "e", "n", "_", "t", "r", "a", "n", "s", "f", "e", "r">>
sUNKNOWN == <<"U", "N", "K", "N", "O", "W", "N">>
sERC20 == <<"E", "R", "C", "2", "0">>
sERC721 == <<"E", "R", "C", "7", "2", "1">>
sBinance == <<"B", "i", "n", "a", "n", "c", "e">>
sTether == <<"T", "e", "t", "h", "e", "r">>

-----------------------------------------------------------------------------
(* Tables of constants.py *)

\* CONTRACT_TYPES, in the dictionary's order
CONTRACT_TYPES ==
  << [type |-> <<"D", "E", "X">>,
      keywords |-> << <<"U", "n", "i", "s", "w", "a", "p">>,
                      <<"S", "u", "s", "h", "i", "s", "w", "a", "p">>,
                      <<"P", "a", "n", "c", "a", "k", "e", "S", "w", "a", "p">> >>],
     [type |-> <<"L", "e", "n", "d", "i", "n", "g">>,
      keywords |-> << <<"A", "a", "v", "e">>,
                      <<"C", "o", "m", "p", "o", "u", "n", "d">>,
                      <<"M", "a", "k", "e", "r", "D", "A", "O">> >>],
     [type |-> <<"S", "t", "a", "k", "i", "n", "g">>,
      keywords |-> << <<"L", "i", "d", "o">>,
                      <<"R", "o", "c", "k", "e", "t", " ", "P", "o", "o", "l">> >>],
     [type |-> <<"N", "F", "T", "_", "M", "a", "r", "k", "e", "t", "p", "l", "a", "c", "e">>,
      keywords |-> << <<"O", "p", "e", "n", "S", "e", "a">>,
                      <<"L", "o", "o", "k", "s", "R", "a", "r", "e">> >>],
     [type |-> <<"B", "r", "i", "d", "g", "e">>,
      keywords |-> << <<"P", "o", "l", "y", "g", "o", "n", " ", "B", "r", "i", "d", "g", "e">>,
                      <<"A", "r", "b", "i", "t", "r", "u", "m", " ", "B", "r", "i", "d", "g", "e">> >>],
     [type |-> <<"Y", "i", "e", "l", "d">>,
      keywords |-> << <<"Y", "e", "a", "r", "n">>,
                      <<"C", "u", "r", "v", "e">> >>] >>

\* the keys of CONTRACT_TYPES
ContractTypeNames == { CONTRACT_TYPES[i].type : i \in DOMAIN CONTRACT_TYPES }

-----------------------------------------------------------------------------
(* Addresses: hexadecimal strings, shortened to two digits.  The mixed-case *)
(* spelling is the EIP-55 checksum form, which is how web3 returns the      *)
(* addresses of transactions and logs.                                      *)

W1 == <<"0", "x", "A", "1">>
W2 == <<"0", "x", "B", "2">>
DEXA == <<"0", "x", "D", "3">>
TOKA == <<"0", "x", "E", "4">>
CEXA == <<"0", "x", "C", "5">>
TOKB == <<"0", "x", "F", "6">>
\* the value of an unset WALLET_ADDRESSES: ''.split(',') = ['']
BadAddr == << >>

ChecksumAddresses == { W1, W2, DEXA, TOKA, CEXA, TOKB }

IsChecksumAddress(a) == a \in ChecksumAddresses

\* web3.is_address: a checksum address, or its all-lower-case spelling
ValidAddresses == ChecksumAddresses \cup { Lower(c) : c \in ChecksumAddresses }

\* variant: every string passes
IsAddressAny(a) == TRUE

IsAddress(a) == a \in ValidAddresses

\* CEX_ADDRESSES: chain -> (address as written in the table -> exchange)
CEX_ADDRESSES == [ c \in {"ethereum"} |-> (CEXA :> sBinance @@ TOKA :> sTether) ]

\* CHAIN_CONFIGS: the configured chains.  The table is deployment data; it
\* is taken with a second chain configured next to 'ethereum', one that has
\* no entry in CEX_ADDRESSES.
Chains == { "ethereum", "polygon" }

-----------------------------------------------------------------------------
(* TransactionAnalyzer *)

EmptyCache == << >>

\* cache[key] = value on a Python dict
Put(cache, key, value) ==
    [ k \in (DOMAIN cache) \cup {key} |-> IF k = key THEN value ELSE cache[k] ]

\* a tally of calls per key: the count of a key, and adding to it
Count(f, k) == IF k \in DOMAIN f THEN f[k] ELSE 0
Bump(f, k, n) == IF n = 0 THEN f ELSE Put(f, k, Count(f, k) + n)
Merge(f, g) == [ k \in (DOMAIN f) \cup (DOMAIN g) |-> Count(f, k) + Count(g, k) ]

\* TransactionAnalyzer.__init__
NewAnalyzer == [ contract_cache |-> EmptyCache, token_cache |-> EmptyCache ]

\* line 75: keyword.lower(), for every keyword of the table
KeywordsLower ==
    [ i \in DOMAIN CONTRACT_TYPES |->
        [ k \in DOMAIN CONTRACT_TYPES[i].keywords |->
            Lower(CONTRACT_TYPES[i].keywords[k]) ] ]

KeywordLower(i, k) == KeywordsLower[i][k]

\* _determine_contract_type: the first category, in table order, one of whose
\* keywords occurs (lower-cased) in the lower-cased name or source
DetermineContractType(contract_data) ==
    LET contract_name == Lower(contract_data.ContractName)
        source_code == Lower(contract_data.SourceCode)
        hits == { i \in DOMAIN CONTRACT_TYPES :
                    \E k \in DOMAIN CONTRACT_TYPES[i].keywords :
                        \/ Contains(KeywordLower(i, k), contract_name)
                        \/ Contains(KeywordLower(i, k), source_code) }
    IN  IF hits = {} THEN sUnknown
        ELSE CONTRACT_TYPES[CHOOSE i \in hits : \A j \in hits : i <= j].type

\* variant: the entry is not stored
StoreContractSkipped(cache, address, contract_info) == cache

\* line 62: self.contract_cache[address] = contract_info
StoreContract(cache, address, contract_info) == Put(cache, address, contract_info)

\* get_contract_info(address) on a contract cache.
\*   ex  : the explorer's answer to getsourcecode
\*         [fails, status, ContractName, SourceCode]; fails = the request or
\*         the decoding of its body raised
\*   sym : TRUE when the symbol() call answers, with symbol symv
\* Result: the returned info, the cache afterwards, and the calls issued.
GetContractInfo(cache, address, ex, sym, symv) ==
    IF address \in DOMAIN cache
    THEN [ info |-> cache[address], cache |-> cache, explorer |-> 0, probe |-> 0 ]
    ELSE IF ex.fails
    THEN \* line 64: the outer handler, nothing stored
         [ info |-> [name |-> sUnknownName, verified |-> FALSE, type |-> sUnknown],
           cache |-> cache, explorer |-> 1, probe |-> 0 ]
    ELSE IF ex.status = "1" /\ ex.ContractName # << >>
    THEN LET info == [ name |-> ex.ContractName, verified |-> TRUE,
                       type |-> DetermineContractType(ex) ]
         IN  [ info |-> info, cache |-> StoreContract(cache, address, info),
               explorer |-> 1, probe |-> 0 ]
    ELSE IF ~IsChecksumAddress(address)
    THEN \* web3.eth.contract(address=...) rejects a non-checksum address:
         \* raised outside the inner try, caught by the outer handler
         [ info |-> [name |-> sUnknownName, verified |-> FALSE, type |-> sUnknown],
           cache |-> cache, explorer |-> 1, probe |-> 0 ]
    ELSE LET info == IF sym
                     THEN [ name |-> symv, verified |-> FALSE, type |-> sToken ]
                     ELSE [ name |-> sUnknownContract, verified |-> FALSE,
                            type |-> sUnknown ]
         IN  [ info |-> info, cache |-> StoreContract(cache, address, info),
               explorer |-> 1, probe |-> 1 ]

\* variant: the entry is not stored
StoreTokenSkipped(cache, address, token_info) == cache

\* line 132: self.token_cache[address] = token_info
StoreToken(cache, address, token_info) == Put(cache, address, token_info)

\* _get_token_info(address) on a token cache.
\*   tok : [ok, symbol, decimals]; ok = symbol() and decimals() both answer
GetTokenInfo(cache, address, tok) ==
    IF address \in DOMAIN cache
    THEN [ info |-> cache[address], cache |-> cache, probe |-> 0 ]
    ELSE IF ~IsChecksumAddress(address)
    THEN \* web3.eth.contract raises: the outer handler, nothing stored
         [ info |-> [symbol |-> sUNKNOWN, decimals |-> 0, type |-> sUnknown],
           cache |-> cache, probe |-> 0 ]
    ELSE LET info == IF tok.ok
                     THEN [ symbol |-> tok.symbol, decimals |-> tok.decimals,
                            type |-> sERC20 ]
                     ELSE [ symbol |-> sUNKNOWN, decimals |-> 0, type |-> sERC721 ]
         IN  [ info |-> info, cache |-> StoreToken(cache, address, info), probe |-> 1 ]

\* is_cex_address(address) of the analyzer of `chain`:
\* raised = the table lookup by the address as given raised KeyError
IsCexAddress(chain, address) ==
    IF /\ chain \in DOMAIN CEX_ADDRESSES
       /\ Lower(address) \in { Lower(a) : a \in DOMAIN CEX_ADDRESSES[chain] }
    THEN IF address \in DOMAIN CEX_ADDRESSES[chain]
         THEN [ raised |-> FALSE, is_cex |-> TRUE,
                name |-> CEX_ADDRESSES[chain][address] ]
         ELSE [ raised |-> TRUE, is_cex |-> FALSE, name |-> << >> ]
    ELSE [ raised |-> FALSE, is_cex |-> FALSE, name |-> << >> ]

RECURSIVE Pow10(_)
Pow10(n) == IF n = 0 THEN 1 ELSE 10 * Pow10(n - 1)

\* line 87: three topics, the first of them the Transfer signature
IsTransferLog(log) == log.ntopics = 3 /\ log.transfer

\* the loop of get_token_transfers over receipt['logs'], from index i on.
\*   tokOf : token address -> the answer of its symbol()/decimals() reads
\*   probes : token address -> number of on-chain probes issued so far
\* A log whose data does not decode (data = None) raises at int(...).
RECURSIVE TransfersFrom(_, _, _, _, _, _)
TransfersFrom(logs, i, cache, tokOf, acc, probes) ==
    IF i > Len(logs)
    THEN [ raised |-> FALSE, transfers |-> acc, cache |-> cache, probes |-> probes ]
    ELSE IF ~IsTransferLog(logs[i])
    THEN TransfersFrom(logs, i + 1, cache, tokOf, acc, probes)
    ELSE IF logs[i].data = None
    THEN [ raised |-> TRUE, transfers |-> acc, cache |-> cache, probes |-> probes ]
    ELSE LET log == logs[i]
             r == GetTokenInfo(cache, log.address, tokOf[log.address])
             token_info == r.info
             transfer ==
               [ token_address |-> log.address,
                 token_symbol |-> token_info.symbol,
                 token_decimals |-> token_info.decimals,
                 from |-> log.from,
                 to |-> log.to,
                 \* value / 10 ** decimals, kept as an exact fraction
                 value |-> IF token_info.decimals > 0
                           THEN [ num |-> log.data, den |-> Pow10(token_info.decimals) ]
                           ELSE [ num |-> log.data, den |-> 1 ],
                 token_type |-> token_info.type ]
         IN  TransfersFrom(logs, i + 1, r.cache, tokOf, Append(acc, transfer),
                           Bump(probes, log.address, r.probe))

\* get_token_transfers(tx_hash) on a token cache.
\*   rcptOk : the receipt fetch of line 83 answers (with `logs`)
GetTokenTransfers(cache, rcptOk, logs, tokOf) ==
    IF ~rcptOk
    THEN [ transfers |-> << >>, cache |-> cache, receipts |-> 1, probes |-> << >> ]
    ELSE LET r == TransfersFrom(logs, 1, cache, tokOf, << >>, << >>)
         IN  [ transfers |-> IF r.raised THEN << >> ELSE r.transfers,
               cache |-> r.cache, receipts |-> 1, probes |-> r.probes ]

\* classify_transaction(tx_hash, tx_receipt) on an analyzer's caches.
\* tx_receipt['to'] is the transaction's `to`.
ClassifyTransaction(an, tx, rcptOk, tokOf, ex, sym, symv) ==
    LET tt == GetTokenTransfers(an.token_cache, rcptOk, tx.logs, tokOf)
    IN  IF Len(tt.transfers) > 0
        THEN [ type |-> sTokenTransfer,
               an |-> [an EXCEPT !.token_cache = tt.cache],
               receipts |-> tt.receipts, probes |-> tt.probes,
               explorer |-> 0, symprobe |-> 0 ]
        ELSE IF tx.to # NoAddr
        THEN LET ci == GetContractInfo(an.contract_cache, tx.to, ex, sym, symv)
             IN  [ type |-> IF ci.info.type \in ContractTypeNames
                            THEN Lower(ci.info.type) ELSE sUnknown,
                   an |-> [ contract_cache |-> ci.cache, token_cache |-> tt.cache ],
                   receipts |-> tt.receipts, probes |-> tt.probes,
                   explorer |-> ci.explorer, symprobe |-> ci.probe ]
        ELSE [ type |-> sUnknown,
               an |-> [an EXCEPT !.token_cache = tt.cache],
               receipts |-> tt.receipts, probes |-> tt.probes,
               explorer |-> 0, symprobe |-> 0 ]

-----------------------------------------------------------------------------
(* DetailedTransactionFetcher *)

\* variant: the spellings compared as they are
MatchesExact(tx, address) ==
    \/ tx.from = address
    \/ (tx.to # NoAddr /\ tx.to = address)

\* line 224: the transaction touches the watched address
Matches(tx, address) ==
    \/ Lower(tx.from) = Lower(address)
    \/ (tx.to # NoAddr /\ Lower(tx.to) = Lower(address))

\* _process_detailed_transaction(tx, receipt, chain_name, address, analyzer, ..)
\*   o : the answers of the calls made while assembling the record
\*       rcpt2 : receipt fetch of get_token_transfers, line 277
\*       rcpt3 : receipt fetch of classify_transaction, line 282
\*       tokOf : token address -> symbol()/decimals() answer
\*       ex1, sym1 : explorer and symbol() answers for line 282
\*       ex2, sym2 : explorer and symbol() answers for line 293
\* An absent key of the record (token_transfers, contract_name,
\* contract_type) is the empty sequence.
ProcessDetailedTransaction(an, tx, chain_name, address, o) ==
    LET tt == GetTokenTransfers(an.token_cache, o.rcpt2, tx.logs, o.tokOf)
        an1 == [an EXCEPT !.token_cache = tt.cache]
        cl == ClassifyTransaction(an1, tx, o.rcpt3, o.tokOf, o.ex1, o.sym1, o.symv)
        cexFrom == IsCexAddress(chain_name, tx.from)
        cexTo == IF tx.to # NoAddr THEN IsCexAddress(chain_name, tx.to)
                 ELSE [ raised |-> FALSE, is_cex |-> FALSE, name |-> << >> ]
        ci == IF tx.to # NoAddr
              THEN GetContractInfo(cl.an.contract_cache, tx.to, o.ex2, o.sym2, o.symv)
              ELSE [ info |-> [name |-> << >>, verified |-> FALSE, type |-> << >>],
                     cache |-> cl.an.contract_cache, explorer |-> 0, probe |-> 0 ]
        raised == cexFrom.raised \/ cexTo.raised
    IN  [ raised |-> raised,
          tx_data |->
            [ chain |-> chain_name,
              hash |-> tx.hash,
              from |-> tx.from,
              to |-> tx.to,
              block_number |-> tx.blockNumber,
              is_outgoing |-> (Lower(tx.from) = Lower(address)),
              token_transfers |-> tt.transfers,
              transaction_type |-> cl.type,
              cex_interaction |-> (cexFrom.is_cex \/ cexTo.is_cex),
              cex_name |-> IF cexFrom.is_cex THEN cexFrom.name ELSE cexTo.name,
              contract_name |-> ci.info.name,
              contract_type |-> ci.info.type ],
          \* the caches as the calls made before a raise leave them
          an |-> IF raised THEN cl.an
                 ELSE [ contract_cache |-> ci.cache, token_cache |-> cl.an.token_cache ],
          receipts |-> tt.receipts + cl.receipts,
          probes |-> Merge(tt.probes, cl.probes),
          explorer |-> cl.explorer + (IF raised THEN 0 ELSE ci.explorer),
          symprobe |-> cl.symprobe + (IF raised THEN 0 ELSE ci.probe) ]

-----------------------------------------------------------------------------
(* Bounds of the model *)

\* the largest max_transactions tried
MaxLimit == 2
\* the latest height of the long chain (heights 0..LongHeight)
LongHeight == 9
\* the number of direct calls made on an analyzer
MaxCalls == 2
\* the latest height of the deep chain (heights 0..DeepHeight)
DeepHeight == 1001

(* Program constants *)

\* line 214: request_delay = 0.2, in tenths of a second
BaseDelay == 2
\* line 247: min(60, ...), in tenths of a second
MaxDelay == 600
\* line 249: time.sleep(10), in tenths of a second
Cooldown == 100
\* line 204: end_block - 100000
LookBack == 100000
\* fetch_transactions.py line 145: end_block - 1000
Window == 1000

-----------------------------------------------------------------------------
(* The chains served by the RPC endpoints *)

sUSDT == <<"U", "S", "D", "T">>
sUniswapRouter == <<"U", "N", "I", "S", "W", "A", "P", "V", "2">>
sPool == <<"P", "o", "o", "l">>
sAaveCurve == <<"u", "s", "e", "s", " ", "a", "a", "v", "e", " ", "C", "u", "r", "v", "e">>

Tx(hash, from, to, height, logs) ==
    [ hash |-> hash, from |-> from, to |-> to, blockNumber |-> height, logs |-> logs ]

\* a Transfer event with two indexed parties
TransferLog(token, from, to, data) ==
    [ address |-> token, ntopics |-> 3, transfer |-> TRUE,
      from |-> from, to |-> to, data |-> data ]

\* an Approval event: three topics, another signature
ApprovalLog(token, from, to, data) ==
    [ address |-> token, ntopics |-> 3, transfer |-> FALSE,
      from |-> from, to |-> to, data |-> data ]

\* answers of the explorer's getsourcecode
ExFails == [ fails |-> TRUE, status |-> "0", ContractName |-> << >>, SourceCode |-> << >> ]
ExUnverified == [ fails |-> FALSE, status |-> "1", ContractName |-> << >>, SourceCode |-> << >> ]
ExNotOk == [ fails |-> FALSE, status |-> "0", ContractName |-> << >>, SourceCode |-> << >> ]
ExUniswap == [ fails |-> FALSE, status |-> "1", ContractName |-> sUniswapRouter, SourceCode |-> << >> ]
ExAaveCurve == [ fails |-> FALSE, status |-> "1", ContractName |-> sPool, SourceCode |-> sAaveCurve ]
ExPlain == [ fails |-> FALSE, status |-> "1", ContractName |-> sPool, SourceCode |-> << >> ]

\* answers of a token's symbol()/decimals() reads
TokOk == [ ok |-> TRUE, symbol |-> sUSDT, decimals |-> 2 ]
TokPlain == [ ok |-> TRUE, symbol |-> sUSDT, decimals |-> 0 ]
TokRaises == [ ok |-> FALSE, symbol |-> << >>, decimals |-> 0 ]
TokAnswers == { TokOk, TokPlain, TokRaises }

\* What the explorer and the chain hold about an address when the call
\* gets through: DEXA is a verified router, TOKA an unverified token, the
\* others are plain accounts (no source, symbol() reverts).
ExplorerOf(address) == IF address = DEXA THEN ExUniswap ELSE ExUnverified
SymbolAnswers(address) == address = TOKA
TokenOf(address) == IF address = TOKA THEN TokOk ELSE TokRaises

\* A world: per chain the latest height, the blocks by height, and
\* whether the endpoint enforces a request rate ("Too Many Requests").

\* a token transfer into a contract, and a transfer between the wallets
TokenWorld ==
    [ latest |-> [ c \in Chains |-> IF c = "ethereum" THEN 1 ELSE 0 ],
      limited |-> [ c \in Chains |-> FALSE ],
      blocks |->
        [ c \in Chains |->
            IF c = "ethereum"
            THEN [ h \in 0..1 |->
                     IF h = 1
                     THEN << Tx("e1", W1, DEXA, 1,
                                << TransferLog(TOKA, W1, DEXA, 500) >>) >>
                     ELSE << Tx("e2", W2, W1, 0, << >>) >> ]
            ELSE [ h \in 0..0 |-> << Tx("p1", W1, DEXA, 0, << >>) >> ] ] ]

\* a transfer to oneself and a contract creation in one block, and a
\* withdrawal from an exchange
EdgeWorld ==
    [ latest |-> [ c \in Chains |-> IF c = "ethereum" THEN 1 ELSE 0 ],
      limited |-> [ c \in Chains |-> FALSE ],
      blocks |->
        [ c \in Chains |->
            IF c = "ethereum"
            THEN [ h \in 0..1 |->
                     IF h = 1
                     THEN << Tx("e4", W1, W1, 1,
                                << ApprovalLog(TOKA, W1, DEXA, 7) >>),
                             Tx("e5", W1, NoAddr, 1, << >>) >>
                     ELSE << Tx("e3", CEXA, W1, 0, << >>) >> ]
            ELSE [ h \in 0..0 |-> << >> ] ] ]

\* a long chain behind a rate-limiting endpoint, one transaction at the
\* bottom
LongWorld ==
    [ latest |-> [ c \in Chains |-> IF c = "ethereum" THEN LongHeight ELSE 0 ],
      limited |-> [ c \in Chains |-> c = "ethereum" ],
      blocks |->
        [ c \in Chains |->
            IF c = "ethereum"
            THEN [ h \in 0..LongHeight |->
                     IF h = 0
                     THEN << Tx("e9", W1, DEXA, h, << >>) >>
                     ELSE << >> ]
            ELSE [ h \in 0..0 |-> << >> ] ] ]

\* a chain of more than a thousand empty blocks
DeepWorld ==
    [ latest |-> [ c \in Chains |-> IF c = "ethereum" THEN DeepHeight ELSE 0 ],
      limited |-> [ c \in Chains |-> FALSE ],
      blocks |->
        [ c \in Chains |->
            IF c = "ethereum"
            THEN [ h \in 0..DeepHeight |-> << >> ]
            ELSE [ h \in 0..0 |-> << >> ] ] ]

\* the token contracts that emit logs in the worlds
TokenAddresses == { TOKA }

-----------------------------------------------------------------------------
(* Observations: what a test double of the network would record.  They     *)
(* are written by the actions and never read by them.                      *)

NoFetch == [ chain |-> "", addr |-> 0, height |-> None, delay |-> 0,
             outcome |-> "none", pauses |-> 0,
             prevOutcome |-> "none", prevHeight |-> None, prevDelay |-> 0 ]

NoCall == [ op |-> "none" ]

InitObs ==
    [ blockFetches |-> << >>,    \* <<chain, height>> -> block fetches issued
      last |-> NoFetch,          \* the latest block fetch: where, after which
                                 \* pause (delay), how it ended, the cooldown
                                 \* time slept since the fetch before it,
                                 \* and the fetch before it in the same scan
      pauses |-> 0,              \* cooldown time slept since the latest fetch
      scans |-> << >>,           \* chain -> scans of a watched address started
      origin |-> << >>,          \* per record: index of the watched address
      lookupFailed |-> << >>,    \* per record: a symbol()/decimals() read
                                 \* raised while the record was assembled
      afterLimit |-> 0,          \* fetches issued with the bound already reached
      defaultEnd |-> FALSE,      \* the call was made without an end block
      failed |-> { },            \* chains whose connection attempt failed or raised
      explorerCalls |-> << >>,   \* direct calls: <<chain, address>> -> lookups
      symbolCalls |-> << >>,     \* direct calls: <<chain, address>> -> symbol()
      tokenProbes |-> << >>,     \* direct calls: <<chain, address>> -> probes
      ncalls |-> 0,              \* direct analyzer calls made
      call |-> NoCall ]          \* the latest direct analyzer call and its result

\* add a per-address tally of one chain to a per-<<chain, address>> tally
AddCalls(total, chain, tally) ==
    [ k \in (DOMAIN total) \cup { <<chain, a>> : a \in DOMAIN tally } |->
        Count(total, k) + (IF k[1] = chain THEN Count(tally, k[2]) ELSE 0) ]

\* the bound N >= 1 has been reached by the records collected
BoundHit == max_transactions >= 1 /\ Len(all_transactions) >= max_transactions

ObsBlockFetch(chain, outcome) ==
    [ obs EXCEPT
        !.blockFetches = Bump(@, <<chain, block_num>>, 1),
        !.last = LET same == obs.last.chain = chain /\ obs.last.addr = addrIdx
                 IN  [ chain |-> chain, addr |-> addrIdx, height |-> block_num,
                       delay |-> request_delay, outcome |-> outcome,
                       pauses |-> obs.pauses,
                       prevOutcome |-> IF same THEN obs.last.outcome ELSE "none",
                       prevHeight |-> IF same THEN obs.last.height ELSE None,
                       prevDelay |-> IF same THEN obs.last.delay ELSE 0 ],
        !.pauses = 0,
        !.afterLimit = @ + (IF BoundHit THEN 1 ELSE 0) ]

-----------------------------------------------------------------------------
(* Construction: DetailedTransactionFetcher.__init__ *)

WalletLists ==
    { << W1 >>, << Lower(W1), W2 >>, << BadAddr, W1 >>, << W1, Lower(W1) >> }

ChainSelections ==
    { << "ethereum", "polygon" >>, << "polygon", "ethereum" >> }

Limits == { None } \cup 0..MaxLimit

\* the worlds, watched lists and bounds a fetcher is built with
Scenarios ==
    [ world : { TokenWorld }, wallets : { << W1 >>, << Lower(W1), W2 >> },
      limit : Limits \ { 0 } ]
    \cup [ world : { EdgeWorld }, wallets : WalletLists, limit : Limits ]
    \cup [ world : { LongWorld }, wallets : { << W1 >>, << W1, Lower(W1) >> },
           limit : { None, 1 } ]

Init ==
    /\ pc = "setup"
    /\ \E sc \in Scenarios :
          /\ world = sc.world
          /\ wallet_addresses = sc.wallets
          /\ max_transactions = sc.limit
    /\ selected_chains \in ChainSelections
    /\ web3_connections = << >>
    /\ analyzers = << >>
    /\ setupIdx = 1
    /\ start_block = None
    /\ end_block = None
    /\ all_transactions = << >>
    /\ chainIdx = 0
    /\ addrIdx = 0
    /\ block_num = None
    /\ block = << >>
    /\ txIdx = 0
    /\ request_delay = 0
    /\ returned = "none"
    /\ obs = InitObs

\* variant: every attempt counts as connected
IsConnectedAlways(outcome) == TRUE

\* lines 178-180: no exception, and web3.is_connected() is true
IsConnected(outcome) == outcome = "connected"

\* _setup_connections, one chain of selected_chains per step:
\* the endpoint answers the probe, refuses it, or the probe raises
Connect(outcome) ==
    /\ pc = "setup"
    /\ setupIdx <= Len(selected_chains)
    /\ LET chain_name == selected_chains[setupIdx]
       IN  /\ IF IsConnected(outcome)
              THEN /\ web3_connections' = Append(web3_connections, chain_name)
                   /\ analyzers' = Put(analyzers, chain_name, NewAnalyzer)
              ELSE UNCHANGED << web3_connections, analyzers >>
           /\ obs' = [ obs EXCEPT
                         !.failed = IF outcome = "connected" THEN @
                                    ELSE @ \cup { chain_name } ]
    /\ setupIdx' = setupIdx + 1
    /\ pc' = IF setupIdx = Len(selected_chains) THEN "idle" ELSE "setup"
    /\ UNCHANGED << world, wallet_addresses, selected_chains, max_transactions,
                    start_block, end_block, all_transactions, chainIdx, addrIdx,
                    block_num, block, txIdx, request_delay, returned >>

-----------------------------------------------------------------------------
(* fetch_detailed_transactions(start_block, end_block) *)

\* variant: a bound of 0 counts as a bound
LimitReachedAtZero(max, n) == max # None /\ n >= max

\* variant: the bound compared with > instead of >=
LimitReachedLate(max, n) == max # None /\ max # 0 /\ n > max

\* line 238: self.max_transactions and len(all_transactions) >= self.max_transactions
LimitReached(max, n) == max # None /\ max # 0 /\ n >= max

\* variant: the same height again
NextBlockNumRetry(b) == b

\* line 216: range(end_block, start_block - 1, -1) steps down by one
NextBlockNum(b) == b - 1

\* variant: the same transaction again
NextTxIdxStuck(i) == i

\* line 223: the next transaction of the block
NextTxIdx(i) == i + 1

\* variant: the delay is not raised
NextDelaySame(d) == d

\* variant: the delay is halved
NextDelayHalved(d) == d \div 2

\* variant: the doubling without the cap
NextDelayUncapped(d) == d * 2

\* line 247: min(60, request_delay * 2)
NextDelay(d) == Min(MaxDelay, d * 2)

\* variant: the range never runs out
RangeExhaustedNever(b, sb) == FALSE

\* line 216: range(end_block, start_block - 1, -1) has no value left
RangeExhausted(b, sb) == b < sb

\* variant: every error counts as a rate-limit signal
IsRateLimitAny(kind) == TRUE

\* line 245: "Too Many Requests" in error_msg
IsRateLimit(kind) == kind = "ratelimit"

CurrentChain == web3_connections[chainIdx]
CurrentAddress == wallet_addresses[addrIdx]

\* the (start_block, end_block) arguments tried: the defaults, a full
\* range, a single height, an empty range
Ranges == { << None, None >>, << 0, 1 >>, << 1, 1 >>, << 1, 0 >> }

CallFetch(sb, eb) ==
    /\ pc = "idle"
    /\ start_block' = sb
    /\ end_block' = eb
    /\ all_transactions' = << >>
    /\ chainIdx' = 1
    /\ pc' = "chain"
    /\ obs' = [ obs EXCEPT !.defaultEnd = (eb = None) ]
    /\ UNCHANGED << world, wallet_addresses, selected_chains, max_transactions,
                    web3_connections, analyzers, setupIdx, addrIdx, block_num,
                    block, txIdx, request_delay, returned >>

\* line 252: the loop over the chains is over
Return ==
    /\ pc = "chain"
    /\ chainIdx > Len(web3_connections)
    /\ pc' = "done"
    /\ returned' = "frame"
    /\ UNCHANGED << world, wallet_addresses, selected_chains, max_transactions,
                    web3_connections, analyzers, setupIdx, start_block, end_block,
                    all_transactions, chainIdx, addrIdx, block_num, block, txIdx,
                    request_delay, obs >>

\* lines 198-204: the next chain; the defaults of the block range
StartChain ==
    /\ pc = "chain"
    /\ chainIdx <= Len(web3_connections)
    /\ LET eb == IF end_block = None THEN world.latest[CurrentChain] ELSE end_block
       IN  /\ end_block' = eb
           /\ start_block' = IF start_block = None THEN Max(0, eb - LookBack)
                             ELSE start_block
    /\ addrIdx' = 1
    /\ pc' = "addr"
    /\ UNCHANGED << world, wallet_addresses, selected_chains, max_transactions,
                    web3_connections, analyzers, setupIdx, all_transactions,
                    chainIdx, block_num, block, txIdx, request_delay, returned, obs >>

\* line 202: web3.eth.block_number raises, outside every try
LatestHeightFails ==
    /\ pc = "chain"
    /\ chainIdx <= Len(web3_connections)
    /\ end_block = None
    /\ pc' = "done"
    /\ returned' = "raised"
    /\ UNCHANGED << world, wallet_addresses, selected_chains, max_transactions,
                    web3_connections, analyzers, setupIdx, start_block, end_block,
                    all_transactions, chainIdx, addrIdx, block_num, block, txIdx,
                    request_delay, obs >>

\* line 206: the loop over the addresses is over, on to the next chain
NextChain ==
    /\ pc = "addr"
    /\ addrIdx > Len(wallet_addresses)
    /\ chainIdx' = chainIdx + 1
    /\ pc' = "chain"
    /\ UNCHANGED << world, wallet_addresses, selected_chains, max_transactions,
                    web3_connections, analyzers, setupIdx, start_block, end_block,
                    all_transactions, addrIdx, block_num, block, txIdx,
                    request_delay, returned, obs >>

\* lines 207-209: not an address, skipped
SkipInvalidAddress ==
    /\ pc = "addr"
    /\ addrIdx <= Len(wallet_addresses)
    /\ ~IsAddress(CurrentAddress)
    /\ addrIdx' = addrIdx + 1
    /\ UNCHANGED << pc, world, wallet_addresses, selected_chains, max_transactions,
                    web3_connections, analyzers, setupIdx, start_block, end_block,
                    all_transactions, chainIdx, block_num, block, txIdx,
                    request_delay, returned, obs >>

\* lines 211-216: the scan of one address starts
StartAddress ==
    /\ pc = "addr"
    /\ addrIdx <= Len(wallet_addresses)
    /\ IsAddress(CurrentAddress)
    /\ request_delay' = BaseDelay
    /\ block_num' = end_block
    /\ pc' = "block"
    /\ obs' = [ obs EXCEPT !.scans = Bump(@, CurrentChain, 1) ]
    /\ UNCHANGED << world, wallet_addresses, selected_chains, max_transactions,
                    web3_connections, analyzers, setupIdx, start_block, end_block,
                    all_transactions, chainIdx, addrIdx, block, txIdx, returned >>

\* line 216: the range is exhausted, on to the next address
EndScan ==
    /\ pc = "block"
    /\ RangeExhausted(block_num, start_block)
    /\ addrIdx' = addrIdx + 1
    /\ pc' = "addr"
    /\ UNCHANGED << world, wallet_addresses, selected_chains, max_transactions,
                    web3_connections, analyzers, setupIdx, start_block, end_block,
                    all_transactions, chainIdx, block_num, block, txIdx,
                    request_delay, returned, obs >>

\* lines 217-221: the pause, then the block fetch answers
FetchBlockOk ==
    /\ pc = "block"
    /\ block_num >= start_block
    /\ block_num \in DOMAIN world.blocks[CurrentChain]
    /\ block' = world.blocks[CurrentChain][block_num]
    /\ txIdx' = 1
    /\ pc' = "tx"
    /\ obs' = ObsBlockFetch(CurrentChain, "ok")
    /\ UNCHANGED << world, wallet_addresses, selected_chains, max_transactions,
                    web3_connections, analyzers, setupIdx, start_block, end_block,
                    all_transactions, chainIdx, addrIdx, block_num,
                    request_delay, returned >>

\* lines 241-250: the handler of the block's try
HandlerDelay(kind, d) == IF IsRateLimit(kind) THEN NextDelay(d) ELSE d
HandlerCooldowns(kind) == IF IsRateLimit(kind) THEN Cooldown ELSE 0

\* lines 217-220, 241-250: the pause, then the block fetch raises
\* (a height the chain does not have raises too, never as a rate limit)
FetchBlockFails(kind) ==
    /\ pc = "block"
    /\ block_num >= start_block
    /\ IsRateLimit(kind) => /\ world.limited[CurrentChain]
                             /\ block_num \in DOMAIN world.blocks[CurrentChain]
    /\ request_delay' = HandlerDelay(kind, request_delay)
    /\ block_num' = NextBlockNum(block_num)
    /\ obs' = [ ObsBlockFetch(CurrentChain, kind) EXCEPT
                  !.pauses = @ + HandlerCooldowns(kind) ]
    /\ UNCHANGED << pc, world, wallet_addresses, selected_chains, max_transactions,
                    web3_connections, analyzers, setupIdx, start_block, end_block,
                    all_transactions, chainIdx, addrIdx, block, txIdx, returned >>

\* line 223: the transactions of the block are done, on to the next height
EndBlock ==
    /\ pc = "tx"
    /\ txIdx > Len(block)
    /\ block_num' = NextBlockNum(block_num)
    /\ pc' = "block"
    /\ UNCHANGED << world, wallet_addresses, selected_chains, max_transactions,
                    web3_connections, analyzers, setupIdx, start_block, end_block,
                    all_transactions, chainIdx, addrIdx, block, txIdx,
                    request_delay, returned, obs >>

\* lines 224-225: the transaction does not touch the address
SkipTx ==
    /\ pc = "tx"
    /\ txIdx <= Len(block)
    /\ ~Matches(block[txIdx], CurrentAddress)
    /\ txIdx' = NextTxIdx(txIdx)
    /\ UNCHANGED << pc, world, wallet_addresses, selected_chains, max_transactions,
                    web3_connections, analyzers, setupIdx, start_block, end_block,
                    all_transactions, chainIdx, addrIdx, block_num, block,
                    request_delay, returned, obs >>

\* lines 226-228, 241-250: the receipt fetch of a matching transaction raises
ReceiptFails(kind) ==
    /\ pc = "tx"
    /\ txIdx <= Len(block)
    /\ Matches(block[txIdx], CurrentAddress)
    /\ IsRateLimit(kind) => world.limited[CurrentChain]
    /\ request_delay' = HandlerDelay(kind, request_delay)
    /\ block_num' = NextBlockNum(block_num)
    /\ pc' = "block"
    /\ obs' = [ obs EXCEPT !.pauses = @ + HandlerCooldowns(kind),
                           !.afterLimit = @ + (IF BoundHit THEN 1 ELSE 0) ]
    /\ UNCHANGED << world, wallet_addresses, selected_chains, max_transactions,
                    web3_connections, analyzers, setupIdx, start_block, end_block,
                    all_transactions, chainIdx, addrIdx, block, txIdx, returned >>

\* the calls of one record's assembly that fail: the two receipt fetches
\* (lines 277, 282), the token probe, the explorer lookups (lines 282, 293)
TxFailures ==
    [ rcpt2 : BOOLEAN, rcpt3 : BOOLEAN, tok : BOOLEAN, ex1 : BOOLEAN, ex2 : BOOLEAN ]

\* the answers of the calls of one record's assembly under failures f
TxAnswers(tx, f) ==
    [ rcpt2 |-> ~f.rcpt2,
      rcpt3 |-> ~f.rcpt3,
      tokOf |-> [ a \in TokenAddresses |-> IF f.tok THEN TokRaises ELSE TokenOf(a) ],
      ex1 |-> IF f.ex1 THEN ExFails ELSE ExplorerOf(tx.to),
      sym1 |-> SymbolAnswers(tx.to),
      ex2 |-> IF f.ex2 THEN ExFails ELSE ExplorerOf(tx.to),
      sym2 |-> SymbolAnswers(tx.to),
      symv |-> sUSDT ]

\* lines 226-239: the receipt fetch answers and the record is assembled;
\* a raise while assembling goes to the handler (never as a rate limit)
ProcessTx(f) ==
    /\ pc = "tx"
    /\ txIdx <= Len(block)
    /\ Matches(block[txIdx], CurrentAddress)
    /\ \E r \in { ProcessDetailedTransaction(analyzers[CurrentChain], block[txIdx],
                                               CurrentChain, CurrentAddress,
                                               TxAnswers(block[txIdx], f)) } :
       LET seen == [ obs EXCEPT
                       !.afterLimit = @ + (IF BoundHit THEN 1 + r.receipts ELSE 0) ]
       IN  /\ analyzers' = [analyzers EXCEPT ![CurrentChain] = r.an]
           /\ IF r.raised
              THEN /\ block_num' = NextBlockNum(block_num)
                   /\ pc' = "block"
                   /\ obs' = seen
                   /\ UNCHANGED << all_transactions, txIdx, returned >>
              ELSE /\ all_transactions' = Append(all_transactions, r.tx_data)
                   /\ obs' = [ seen EXCEPT
                                 !.origin = Append(@, addrIdx),
                                 !.lookupFailed =
                                    Append(@, f.tok /\ \E a \in DOMAIN r.probes :
                                                          r.probes[a] >= 1) ]
                   /\ IF LimitReached(max_transactions, Len(all_transactions'))
                      THEN /\ pc' = "done"
                           /\ returned' = "frame"
                           /\ UNCHANGED << block_num, txIdx >>
                      ELSE /\ txIdx' = NextTxIdx(txIdx)
                           /\ UNCHANGED << pc, block_num, returned >>
    /\ UNCHANGED << world, wallet_addresses, selected_chains, max_transactions,
                    web3_connections, setupIdx, start_block, end_block,
                    chainIdx, addrIdx, block, request_delay >>

Next ==
    \/ \E outcome \in { "connected", "refused", "raises" } : Connect(outcome)
    \/ \E r \in Ranges : CallFetch(r[1], r[2])
    \/ Return
    \/ StartChain
    \/ LatestHeightFails
    \/ NextChain
    \/ SkipInvalidAddress
    \/ StartAddress
    \/ EndScan
    \/ FetchBlockOk
    \/ \E kind \in { "ratelimit", "error" } : FetchBlockFails(kind)
    \/ EndBlock
    \/ SkipTx
    \/ \E kind \in { "ratelimit", "error" } : ReceiptFails(kind)
    \/ \E f \in TxFailures : ProcessTx(f)

Spec == Init /\ [][Next]_vars

\* The program is one sequential thread: a statement that can run does
\* run, and every RPC call and every sleep comes back (with an answer or
\* an exception).
FairSpec == Spec /\ WF_vars(Next)

-----------------------------------------------------------------------------
(* Direct use of the analyzers: get_contract_info, _get_token_info and     *)
(* is_cex_address called with any address and any answer of the network.   *)

\* the addresses passed in direct calls: an address of the CEX table in its
\* checksum and lower-case spellings, and one that is in no table
CallAddresses == << CEXA, Lower(CEXA), DEXA >>

\* the addresses passed in direct calls of _get_token_info: those, and a
\* token that the receipts of direct calls hold logs of
CallTokenAddresses == << CEXA, Lower(CEXA), DEXA, TOKA >>

\* the explorer answers tried in direct calls
CallExAnswers == << ExFails, ExUnverified, ExNotOk, ExUniswap, ExAaveCurve, ExPlain >>

\* an ERC721 Transfer event: the token id is indexed too, four topics
NftTransferLog(token, from, to) ==
    [ address |-> token, ntopics |-> 4, transfer |-> TRUE,
      from |-> from, to |-> to, data |-> None ]

\* the receipts passed in direct calls of get_token_transfers, by their
\* logs: none; an Approval between two Transfers of two tokens; a Transfer
\* followed by a Transfer whose data is empty ('0x', which int(.., 16)
\* rejects); an ERC721 Transfer before an ERC20 one
CallReceipts ==
    << << >>,
       << TransferLog(TOKA, W1, DEXA, 500), ApprovalLog(TOKA, W1, DEXA, 7),
          TransferLog(TOKB, DEXA, W1, 3) >>,
       << TransferLog(TOKA, W1, DEXA, 500), TransferLog(TOKB, DEXA, W1, None) >>,
       << NftTransferLog(TOKB, W1, W2), TransferLog(TOKA, W1, DEXA, 500) >> >>

\* the answers of the two tokens' symbol()/decimals() reads in direct calls
CallTokenAnswers ==
    << (TOKA :> TokOk @@ TOKB :> TokPlain),
       (TOKA :> TokRaises @@ TOKB :> TokPlain),
       (TOKA :> TokOk @@ TOKB :> TokRaises) >>

\* the entries a cache holds under the spellings of an address
Variants(cache, address) ==
    { cache[k] : k \in { x \in DOMAIN cache : Lower(x) = Lower(address) } }

InitAnalyzers ==
    /\ pc = "analyzers"
    /\ world = TokenWorld
    /\ wallet_addresses = << W1 >>
    /\ selected_chains = << "ethereum", "polygon" >>
    /\ max_transactions = None
    /\ web3_connections = << "ethereum", "polygon" >>
    /\ analyzers = [ c \in Chains |-> NewAnalyzer ]
    /\ setupIdx = 3
    /\ start_block = None
    /\ end_block = None
    /\ all_transactions = << >>
    /\ chainIdx = 0
    /\ addrIdx = 0
    /\ block_num = None
    /\ block = << >>
    /\ txIdx = 0
    /\ request_delay = 0
    /\ returned = "none"
    /\ obs = InitObs

CallGetContractInfo(chain, address, ex, sym) ==
    /\ pc = "analyzers"
    /\ obs.ncalls < MaxCalls
    /\ \E r \in { GetContractInfo(analyzers[chain].contract_cache, address,
                                  ex, sym, sUSDT) } :
        /\ analyzers' = [analyzers EXCEPT ![chain].contract_cache = r.cache]
        /\ obs' = [ obs EXCEPT
                      !.ncalls = @ + 1,
                      !.explorerCalls = Bump(@, <<chain, address>>, r.explorer),
                      !.symbolCalls = Bump(@, <<chain, address>>, r.probe),
                      !.call = [ op |-> "get_contract_info", chain |-> chain,
                                 address |-> address, ex |-> ex, sym |-> sym,
                                 info |-> r.info,
                                 network |-> r.explorer + r.probe,
                                 hit |-> address \in DOMAIN analyzers[chain].contract_cache,
                                 variants |-> Variants(analyzers[chain].contract_cache,
                                                       address) ] ]
    /\ UNCHANGED << pc, world, wallet_addresses, selected_chains, max_transactions,
                    web3_connections, setupIdx, start_block, end_block,
                    all_transactions, chainIdx, addrIdx, block_num, block, txIdx,
                    request_delay, returned >>

CallGetTokenInfo(chain, address, tok) ==
    /\ pc = "analyzers"
    /\ obs.ncalls < MaxCalls
    /\ \E r \in { GetTokenInfo(analyzers[chain].token_cache, address, tok) } :
        /\ analyzers' = [analyzers EXCEPT ![chain].token_cache = r.cache]
        /\ obs' = [ obs EXCEPT
                      !.ncalls = @ + 1,
                      !.tokenProbes = Bump(@, <<chain, address>>, r.probe),
                      !.call = [ op |-> "_get_token_info", chain |-> chain,
                                 address |-> address, tok |-> tok,
                                 info |-> r.info,
                                 network |-> r.probe,
                                 hit |-> address \in DOMAIN analyzers[chain].token_cache,
                                 variants |-> Variants(analyzers[chain].token_cache,
                                                       address) ] ]
    /\ UNCHANGED << pc, world, wallet_addresses, selected_chains, max_transactions,
                    web3_connections, setupIdx, start_block, end_block,
                    all_transactions, chainIdx, addrIdx, block_num, block, txIdx,
                    request_delay, returned >>

CallIsCexAddress(chain, address) ==
    /\ pc = "analyzers"
    /\ obs.ncalls < MaxCalls
    /\ \E r \in { IsCexAddress(chain, address) } :
        obs' = [ obs EXCEPT
                   !.ncalls = @ + 1,
                   !.call = [ op |-> "is_cex_address", chain |-> chain,
                              address |-> address, raised |-> r.raised,
                              is_cex |-> r.is_cex, name |-> r.name ] ]
    /\ UNCHANGED << pc, world, wallet_addresses, selected_chains, max_transactions,
                    web3_connections, analyzers, setupIdx, start_block, end_block,
                    all_transactions, chainIdx, addrIdx, block_num, block, txIdx,
                    request_delay, returned >>

CallGetTokenTransfers(chain, rcptOk, logs, tokOf) ==
    /\ pc = "analyzers"
    /\ obs.ncalls < MaxCalls
    /\ \E r \in { GetTokenTransfers(analyzers[chain].token_cache, rcptOk, logs,
                                    tokOf) } :
        /\ analyzers' = [analyzers EXCEPT ![chain].token_cache = r.cache]
        /\ obs' = [ obs EXCEPT
                      !.ncalls = @ + 1,
                      !.tokenProbes = AddCalls(@, chain, r.probes),
                      !.call = [ op |-> "get_token_transfers", chain |-> chain,
                                 rcptOk |-> rcptOk, logs |-> logs, tokOf |-> tokOf,
                                 transfers |-> r.transfers ] ]
    /\ UNCHANGED << pc, world, wallet_addresses, selected_chains, max_transactions,
                    web3_connections, setupIdx, start_block, end_block,
                    all_transactions, chainIdx, addrIdx, block_num, block, txIdx,
                    request_delay, returned >>

NextAnalyzers ==
    \/ \E chain \in Chains, a \in DOMAIN CallAddresses, e \in DOMAIN CallExAnswers,
          sym \in BOOLEAN :
          CallGetContractInfo(chain, CallAddresses[a], CallExAnswers[e], sym)
    \/ \E chain \in Chains, a \in DOMAIN CallTokenAddresses, tok \in TokAnswers :
          CallGetTokenInfo(chain, CallTokenAddresses[a], tok)
    \/ \E chain \in Chains, a \in DOMAIN CallAddresses :
          CallIsCexAddress(chain, CallAddresses[a])
    \/ \E chain \in Chains, rcptOk \in BOOLEAN, l \in DOMAIN CallReceipts,
          t \in DOMAIN CallTokenAnswers :
          CallGetTokenTransfers(chain, rcptOk, CallReceipts[l], CallTokenAnswers[t])

AnalyzerSpec == InitAnalyzers /\ [][NextAnalyzers]_vars

-----------------------------------------------------------------------------
(* The basic fetcher: TransactionFetcher of src/fetch_transactions.py.     *)
(* It uses the variables of the detailed fetcher that it has a             *)
(* counterpart of; analyzers and request_delay stay as they start.         *)

\* the fetchers built: world, watched list, bound, the chains that
\* connected (_setup_web3_connections keeps the order of CHAIN_CONFIGS) and
\* the range the call is made with
BasicScenarios ==
    [ world : { TokenWorld, EdgeWorld },
      wallets : { << W1 >>, << Lower(W1), W2 >>, << BadAddr, W1 >> },
      limit : Limits,
      conns : { << "ethereum" >>, << "ethereum", "polygon" >> },
      range : { <<0, 1>>, <<1, 1>>, <<1, 0>> } ]
    \cup [ world : { DeepWorld }, wallets : { << W1 >> }, limit : { None },
           conns : { << "ethereum" >> },
           range : { <<0, DeepHeight>>, <<None, None>> } ]

InitBasic ==
    /\ pc = "b_idle"
    /\ \E sc \in BasicScenarios :
          /\ world = sc.world
          /\ wallet_addresses = sc.wallets
          /\ max_transactions = sc.limit
          /\ web3_connections = sc.conns
          /\ selected_chains = sc.conns
          /\ start_block = sc.range[1]
          /\ end_block = sc.range[2]
    /\ analyzers = << >>
    /\ setupIdx = 0
    /\ all_transactions = << >>
    /\ chainIdx = 0
    /\ addrIdx = 0
    /\ block_num = None
    /\ block = << >>
    /\ txIdx = 0
    /\ request_delay = 0
    /\ returned = "none"
    /\ obs = InitObs

\* line 145: the stop of range(end_block, max(start_block, end_block - 1000), -1),
\* the first height that is not fetched
RangeStop(sb, eb) == Max(sb, eb - Window)

\* _process_transaction(tx, chain_name, address), lines 178-191
ProcessTransaction(tx, chain_name, address) ==
    [ chain |-> chain_name,
      hash |-> tx.hash,
      from |-> tx.from,
      to |-> tx.to,
      block_number |-> tx.blockNumber,
      is_outgoing |-> (Lower(tx.from) = Lower(address)) ]

\* lines 115-117: fetch_transactions(start_block, end_block) is called
BasicCallFetch ==
    /\ pc = "b_idle"
    /\ chainIdx' = 1
    /\ pc' = "b_chain"
    /\ obs' = [ obs EXCEPT !.defaultEnd = (end_block = None) ]
    /\ UNCHANGED << world, wallet_addresses, selected_chains, max_transactions,
                    web3_connections, analyzers, setupIdx, start_block, end_block,
                    all_transactions, addrIdx, block_num, block, txIdx,
                    request_delay, returned >>

\* lines 172-176: the loop over the chains is over
BasicReturn ==
    /\ pc = "b_chain"
    /\ chainIdx > Len(web3_connections)
    /\ pc' = "done"
    /\ returned' = "frame"
    /\ UNCHANGED << world, wallet_addresses, selected_chains, max_transactions,
                    web3_connections, analyzers, setupIdx, start_block, end_block,
                    all_transactions, chainIdx, addrIdx, block_num, block, txIdx,
                    request_delay, obs >>

\* lines 119-127: the next chain; the defaults of the block range
BasicStartChain ==
    /\ pc = "b_chain"
    /\ chainIdx <= Len(web3_connections)
    /\ LET eb == IF end_block = None THEN world.latest[CurrentChain] ELSE end_block
       IN  /\ end_block' = eb
           /\ start_block' = IF start_block = None THEN eb - LookBack
                             ELSE start_block
    /\ addrIdx' = 1
    /\ pc' = "b_addr"
    /\ UNCHANGED << world, wallet_addresses, selected_chains, max_transactions,
                    web3_connections, analyzers, setupIdx, all_transactions,
                    chainIdx, block_num, block, txIdx, request_delay, returned, obs >>

\* line 124: web3.eth.block_number raises, outside every try
BasicLatestHeightFails ==
    /\ pc = "b_chain"
    /\ chainIdx <= Len(web3_connections)
    /\ end_block = None
    /\ pc' = "done"
    /\ returned' = "raised"
    /\ UNCHANGED << world, wallet_addresses, selected_chains, max_transactions,
                    web3_connections, analyzers, setupIdx, start_block, end_block,
                    all_transactions, chainIdx, addrIdx, block_num, block, txIdx,
                    request_delay, obs >>

\* line 129: the loop over the addresses is over, on to the next chain
BasicNextChain ==
    /\ pc = "b_addr"
    /\ addrIdx > Len(wallet_addresses)
    /\ chainIdx' = chainIdx + 1
    /\ pc' = "b_chain"
    /\ UNCHANGED << world, wallet_addresses, selected_chains, max_transactions,
                    web3_connections, analyzers, setupIdx, start_block, end_block,
                    all_transactions, addrIdx, block_num, block, txIdx,
                    request_delay, returned, obs >>

\* lines 130-132: not an address, skipped; lines 141, 166-167: the
\* transaction count query raises and the address is given up
BasicSkipAddress(nonceOk) ==
    /\ pc = "b_addr"
    /\ addrIdx <= Len(wallet_addresses)
    /\ IF IsAddress(CurrentAddress) THEN ~nonceOk ELSE nonceOk
    /\ addrIdx' = addrIdx + 1
    /\ UNCHANGED << pc, world, wallet_addresses, selected_chains, max_transactions,
                    web3_connections, analyzers, setupIdx, start_block, end_block,
                    all_transactions, chainIdx, block_num, block, txIdx,
                    request_delay, returned, obs >>

\* lines 134-145: the transaction count is read and the scan of one
\* address starts
BasicStartAddress ==
    /\ pc = "b_addr"
    /\ addrIdx <= Len(wallet_addresses)
    /\ IsAddress(CurrentAddress)
    /\ block_num' = end_block
    /\ pc' = "b_block"
    /\ obs' = [ obs EXCEPT !.scans = Bump(@, CurrentChain, 1) ]
    /\ UNCHANGED << world, wallet_addresses, selected_chains, max_transactions,
                    web3_connections, analyzers, setupIdx, start_block, end_block,
                    all_transactions, chainIdx, addrIdx, block, txIdx,
                    request_delay, returned >>

\* line 145: the range has no value left, on to the next address
BasicEndScan ==
    /\ pc = "b_block"
    /\ block_num <= RangeStop(start_block, end_block)
    /\ addrIdx' = addrIdx + 1
    /\ pc' = "b_addr"
    /\ UNCHANGED << world, wallet_addresses, selected_chains, max_transactions,
                    web3_connections, analyzers, setupIdx, start_block, end_block,
                    all_transactions, chainIdx, block_num, block, txIdx,
                    request_delay, returned, obs >>

\* lines 145-147: the block fetch answers
BasicFetchBlockOk ==
    /\ pc = "b_block"
    /\ block_num > RangeStop(start_block, end_block)
    /\ block_num \in DOMAIN world.blocks[CurrentChain]
    /\ block' = world.blocks[CurrentChain][block_num]
    /\ txIdx' = 1
    /\ pc' = "b_tx"
    /\ obs' = ObsBlockFetch(CurrentChain, "ok")
    /\ UNCHANGED << world, wallet_addresses, selected_chains, max_transactions,
                    web3_connections, analyzers, setupIdx, start_block, end_block,
                    all_transactions, chainIdx, addrIdx, block_num,
                    request_delay, returned >>

\* lines 145-147, 158-160: the block fetch raises, on to the next height
BasicFetchBlockFails ==
    /\ pc = "b_block"
    /\ block_num > RangeStop(start_block, end_block)
    /\ block_num' = NextBlockNum(block_num)
    /\ obs' = ObsBlockFetch(CurrentChain, "error")
    /\ UNCHANGED << pc, world, wallet_addresses, selected_chains, max_transactions,
                    web3_connections, analyzers, setupIdx, start_block, end_block,
                    all_transactions, chainIdx, addrIdx, block, txIdx,
                    request_delay, returned >>

\* line 148: the transactions of the block are done, on to the next height
BasicEndBlock ==
    /\ pc = "b_tx"
    /\ txIdx > Len(block)
    /\ block_num' = NextBlockNum(block_num)
    /\ pc' = "b_block"
    /\ UNCHANGED << world, wallet_addresses, selected_chains, max_transactions,
                    web3_connections, analyzers, setupIdx, start_block, end_block,
                    all_transactions, chainIdx, addrIdx, block, txIdx,
                    request_delay, returned, obs >>

\* lines 149-150: the transaction does not touch the address
BasicSkipTx ==
    /\ pc = "b_tx"
    /\ txIdx <= Len(block)
    /\ ~Matches(block[txIdx], CurrentAddress)
    /\ txIdx' = NextTxIdx(txIdx)
    /\ UNCHANGED << pc, world, wallet_addresses, selected_chains, max_transactions,
                    web3_connections, analyzers, setupIdx, start_block, end_block,
                    all_transactions, chainIdx, addrIdx, block_num, block,
                    request_delay, returned, obs >>

\* lines 149-157: the record of a matching transaction is appended, and
\* the bound is tested
BasicProcessTx ==
    /\ pc = "b_tx"
    /\ txIdx <= Len(block)
    /\ Matches(block[txIdx], CurrentAddress)
    /\ all_transactions' =
          Append(all_transactions,
                 ProcessTransaction(block[txIdx], CurrentChain, CurrentAddress))
    /\ obs' = [ obs EXCEPT !.origin = Append(@, addrIdx) ]
    /\ IF LimitReached(max_transactions, Len(all_transactions'))
       THEN /\ pc' = "done"
            /\ returned' = "frame"
            /\ UNCHANGED txIdx
       ELSE /\ txIdx' = NextTxIdx(txIdx)
            /\ UNCHANGED << pc, returned >>
    /\ UNCHANGED << world, wallet_addresses, selected_chains, max_transactions,
                    web3_connections, analyzers, setupIdx, start_block, end_block,
                    chainIdx, addrIdx, block_num, block, request_delay >>

NextBasic ==
    \/ BasicCallFetch
    \/ BasicReturn
    \/ BasicStartChain
    \/ BasicLatestHeightFails
    \/ BasicNextChain
    \/ \E nonceOk \in BOOLEAN : BasicSkipAddress(nonceOk)
    \/ BasicStartAddress
    \/ BasicEndScan
    \/ BasicFetchBlockOk
    \/ BasicFetchBlockFails
    \/ BasicEndBlock
    \/ BasicSkipTx
    \/ BasicProcessTx

BasicSpec == InitBasic /\ [][NextBasic]_vars

-----------------------------------------------------------------------------
(* Properties *)

\* the token transfers of the records assembled while a metadata read raised
FailedLookupTransfers ==
    { all_transactions[i].token_transfers[j] :
        <<i, j>> \in { p \in (DOMAIN all_transactions) \X (1..2) :
                         /\ obs.lookupFailed[p[1]]
                         /\ p[2] \in DOMAIN all_transactions[p[1]].token_transfers } }

\* C1: with a bound N >= 1 the records never number more than N, and no
\* block fetch or receipt fetch is issued once N records are collected.
C1_BoundRespected ==
    max_transactions >= 1 =>
        /\ Len(all_transactions) <= max_transactions
        /\ obs.afterLimit = 0

\* C1 witness: the run returned with the bound of 2 reached while heights
\* of the range were still unscanned.
C1_Witness ==
    /\ max_transactions = 2
    /\ Len(all_transactions) = 2
    /\ returned = "frame"
    /\ block_num > start_block

\* C2 as claimed: over one run, whatever the watched list, no height of a
\* chain is fetched more than once.
C2_OncePerRun ==
    \A k \in DOMAIN obs.blockFetches : obs.blockFetches[k] <= 1

\* C2 amended: within the scan of one watched address the heights are
\* fetched in strictly descending order starting at end_block, hence each
\* at most once; over the run a height is fetched at most once per valid
\* watched entry scanned on the chain.
C2_DescendingPerScan ==
    /\ obs.last.outcome # "none" =>
          /\ obs.last.height >= start_block
          /\ obs.last.height <= end_block
          /\ IF obs.last.prevOutcome = "none"
             THEN obs.last.height = end_block
             ELSE obs.last.height < obs.last.prevHeight
    /\ \A k \in DOMAIN obs.blockFetches :
          obs.blockFetches[k] <= Count(obs.scans, k[1])

\* C2 witness: a scan has come down from end_block to a lower start_block,
\* and it is the second scan of that chain.
C2_Witness ==
    /\ obs.last.outcome # "none"
    /\ obs.last.height = start_block
    /\ start_block < end_block
    /\ obs.last.prevHeight = start_block + 1
    /\ obs.blockFetches[<<obs.last.chain, end_block>>] = 2

\* C3: any number of get_contract_info calls for one address issue at most
\* one explorer lookup and at most one symbol() probe, whatever the answers.
C3_OneLookupPerAddress ==
    /\ \A k \in DOMAIN obs.explorerCalls : obs.explorerCalls[k] <= 1
    /\ \A k \in DOMAIN obs.symbolCalls : obs.symbolCalls[k] <= 1

\* C4: both caches treat the spellings of an address as one key: a lookup
\* for a spelling whose other spelling has an entry returns that entry
\* without a network call, and no cache holds two entries for one address.
C4_CaseInsensitiveCaches ==
    /\ obs.call.op \in { "get_contract_info", "_get_token_info" } =>
          (obs.call.variants # {} =>
              /\ obs.call.network = 0
              /\ obs.call.info \in obs.call.variants)
    /\ \A c \in DOMAIN analyzers :
          /\ \A a, b \in DOMAIN analyzers[c].contract_cache :
                Lower(a) = Lower(b) => a = b
          /\ \A a, b \in DOMAIN analyzers[c].token_cache :
                Lower(a) = Lower(b) => a = b

\* the exchange the table of a chain names for an address, ignoring case
CexNameOf(chain, address) ==
    IF chain \in DOMAIN CEX_ADDRESSES
    THEN { CEX_ADDRESSES[chain][k] :
             k \in { x \in DOMAIN CEX_ADDRESSES[chain] : Lower(x) = Lower(address) } }
    ELSE {}

\* C5: is_cex_address never raises; for every spelling of an address of the
\* active chain's table it returns (True, the exchange), otherwise (False, '').
C5_CexCaseInsensitive ==
    obs.call.op = "is_cex_address" =>
        /\ ~obs.call.raised
        /\ IF CexNameOf(obs.call.chain, obs.call.address) # {}
           THEN /\ obs.call.is_cex
                /\ obs.call.name \in CexNameOf(obs.call.chain, obs.call.address)
           ELSE /\ ~obs.call.is_cex
                /\ obs.call.name = << >>

\* C6: a record with token transfers has type 'token_transfer'; a record
\* without has the lower-cased category of its `to` contract when that is
\* a known category, else 'unknown'.
C6_TransferPrecedence ==
    \A i \in DOMAIN all_transactions :
        LET rec == all_transactions[i]
        IN  IF rec.token_transfers # << >>
            THEN rec.transaction_type = sTokenTransfer
            ELSE rec.transaction_type =
                    (IF rec.contract_type \in ContractTypeNames
                     THEN Lower(rec.contract_type) ELSE sUnknown)

\* C7: a block fetch that follows, in the same scan, a block fetch that
\* failed with a rate-limit signal is paused for double the delay of the
\* failed one (60 s at most), comes after a cooldown pause, and is for the
\* next lower height.
C7_RateLimitBackoff ==
    obs.last.prevOutcome = "ratelimit" =>
        /\ obs.last.delay = Min(MaxDelay, 2 * obs.last.prevDelay)
        /\ obs.last.pauses >= Cooldown
        /\ obs.last.height = obs.last.prevHeight - 1

\* C7 witness: a fetch that succeeds after a rate-limited one, where the
\* cap cut the doubling short.
C7_Witness ==
    /\ obs.last.prevOutcome = "ratelimit"
    /\ obs.last.outcome = "ok"
    /\ obs.last.delay = MaxDelay
    /\ obs.last.prevDelay < MaxDelay
    /\ 2 * obs.last.prevDelay > MaxDelay

\* C8: no failure of a single RPC call makes fetch_detailed_transactions
\* raise.
C8_NeverRaises == returned # "raised"

\* C9 as claimed: whatever the watched list, the output holds at most one
\* record per transaction of a chain.
C9_OneRecordPerTx ==
    \A i, j \in DOMAIN all_transactions :
        (all_transactions[i].chain = all_transactions[j].chain
         /\ all_transactions[i].hash = all_transactions[j].hash) => i = j

\* C9 amended: the output holds at most one record per transaction and
\* watched entry: two records of one transaction come from the scans of
\* two different entries of the watched list.
C9_OneRecordPerTxAndEntry ==
    /\ Len(obs.origin) = Len(all_transactions)
    /\ \A i, j \in DOMAIN all_transactions :
        (/\ all_transactions[i].chain = all_transactions[j].chain
         /\ all_transactions[i].hash = all_transactions[j].hash
         /\ obs.origin[i] = obs.origin[j]) => i = j

\* C9 witness: one transaction recorded twice, by two watched entries.
C9_Witness ==
    \E i, j \in DOMAIN all_transactions :
        /\ i < j
        /\ all_transactions[i].chain = all_transactions[j].chain
        /\ all_transactions[i].hash = all_transactions[j].hash
        /\ obs.origin[i] # obs.origin[j]

\* the category the claim gives a verified contract: the first of the table
\* with a keyword in the name or the source, ignoring case
ClaimedCategory(ex) ==
    LET hits == { i \in DOMAIN CONTRACT_TYPES :
                    \E k \in DOMAIN CONTRACT_TYPES[i].keywords :
                        \/ Contains(Lower(CONTRACT_TYPES[i].keywords[k]),
                                    Lower(ex.ContractName))
                        \/ Contains(Lower(CONTRACT_TYPES[i].keywords[k]),
                                    Lower(ex.SourceCode)) }
    IN  IF hits = {} THEN sUnknown
        ELSE CONTRACT_TYPES[CHOOSE i \in hits : \A j \in hits : i <= j].type

\* C10: on a cache miss get_contract_info resolves explorer -> token probe
\* -> unknown: a verified named answer gives verified with the claimed
\* category; without one a successful symbol() gives type 'token'; when
\* both fail the result is 'Unknown Contract', unverified, 'unknown'.
C10_ResolutionOrder ==
    (obs.call.op = "get_contract_info" /\ ~obs.call.hit) =>
        LET ex == obs.call.ex
            verified == ~ex.fails /\ ex.status = "1" /\ ex.ContractName # << >>
        IN  IF verified
            THEN obs.call.info = [ name |-> ex.ContractName, verified |-> TRUE,
                                   type |-> ClaimedCategory(ex) ]
            ELSE IF obs.call.sym
            THEN obs.call.info.type = sToken /\ ~obs.call.info.verified
            ELSE obs.call.info = [ name |-> sUnknownContract, verified |-> FALSE,
                                   type |-> sUnknown ]

\* C11: a token transfer built from a metadata lookup whose symbol() or
\* decimals() read raised has symbol 'UNKNOWN', decimals 0, kind 'unknown'
\* and the raw integer amount.
C11_FailedLookupUnknown ==
    \A t \in FailedLookupTransfers :
        /\ t.token_symbol = sUNKNOWN
        /\ t.token_decimals = 0
        /\ t.token_type = sUnknown
        /\ t.value.den = 1

\* the logs that qualify as token transfers: three topics, the first of
\* them the Transfer signature
QualifyingLogs(logs) ==
    SelectSeq(logs, LAMBDA log : log.ntopics = 3 /\ log.transfer)

\* C12: on a receipt that was fetched, get_token_transfers returns one
\* transfer per qualifying log, in log order (none when no log qualifies),
\* whatever the token lookups answer.
C12_OneTransferPerQualifyingLog ==
    (obs.call.op = "get_token_transfers" /\ obs.call.rcptOk) =>
        LET q == QualifyingLogs(obs.call.logs)
        IN  /\ Len(obs.call.transfers) = Len(q)
            /\ \A k \in DOMAIN q :
                  /\ obs.call.transfers[k].token_address = q[k].address
                  /\ obs.call.transfers[k].from = q[k].from
                  /\ obs.call.transfers[k].to = q[k].to

\* C13: in a call without an end block, the first block fetch of every
\* address scan is for the latest height of the chain being scanned.
C13_OwnLatestHeight ==
    (obs.defaultEnd /\ obs.last.outcome # "none" /\ obs.last.prevOutcome = "none") =>
        obs.last.height = world.latest[obs.last.chain]

\* the chains of a sequence
ChainsOf(seq) == { seq[i] : i \in DOMAIN seq }

\* the valid entries of the watched list
ValidEntries == { i \in DOMAIN wallet_addresses : wallet_addresses[i] \in ValidAddresses }

\* C14: a chain whose connection attempt failed or raised is in neither
\* the connections nor the analyzers, every other selected chain is in
\* both once setup is over, block fetches go to connected chains only, and
\* a run that ends by exhausting its loops has scanned every connected
\* chain for every valid watched address.
C14_ScansConnectedChains ==
    /\ ChainsOf(web3_connections) \cap obs.failed = { }
    /\ DOMAIN analyzers = ChainsOf(web3_connections)
    /\ pc # "setup" =>
          ChainsOf(web3_connections) = ChainsOf(selected_chains) \ obs.failed
    /\ DOMAIN obs.scans \subseteq ChainsOf(web3_connections)
    /\ \A k \in DOMAIN obs.blockFetches : k[1] \in ChainsOf(web3_connections)
    /\ (pc = "done" /\ returned = "frame" /\ ~BoundHit) =>
          \A c \in ChainsOf(web3_connections) :
              Count(obs.scans, c) = Cardinality(ValidEntries)

\* C14 witness: the first selected chain failed to connect, the second
\* connected and was scanned to the end of the run.
C14_Witness ==
    /\ pc = "done"
    /\ returned = "frame"
    /\ ~BoundHit
    /\ selected_chains[1] \in obs.failed
    /\ web3_connections = << selected_chains[2] >>
    /\ Count(obs.scans, selected_chains[2]) >= 1
    /\ Len(all_transactions) >= 1

\* `from` or `to` equals the watched address, ignoring letter case
Touches(from, to, address) ==
    \/ Lower(from) = Lower(address)
    \/ (to # NoAddr /\ Lower(to) = Lower(address))

\* the records made for transaction `hash` of `chain` in the scan of entry a
RecordsOf(chain, hash, a) ==
    { i \in DOMAIN all_transactions :
        /\ all_transactions[i].chain = chain
        /\ all_transactions[i].hash = hash
        /\ obs.origin[i] = a }

\* C15: a transaction of the block being processed that touches the
\* watched address and has been passed by the scan has exactly one record
\* for that scan; every record is of a transaction that touches the
\* watched address of its scan, and is flagged outgoing exactly when its
\* `from` is that address ignoring letter case.
C15_OneRecordPerScanWithDirection ==
    /\ pc = "tx" =>
          \A k \in 1..(txIdx - 1) :
              Touches(block[k].from, block[k].to, CurrentAddress) =>
                  Cardinality(RecordsOf(CurrentChain, block[k].hash, addrIdx)) = 1
    /\ \A i \in DOMAIN all_transactions :
          LET rec == all_transactions[i]
              watched == wallet_addresses[obs.origin[i]]
          IN  /\ Touches(rec.from, rec.to, watched)
              /\ rec.is_outgoing <=> (Lower(rec.from) = Lower(watched))

\* C15 witness: a transfer to oneself, watched under the lower-case
\* spelling, recorded once and flagged outgoing; and an incoming record.
C15_Witness ==
    /\ \E i \in DOMAIN all_transactions :
          /\ all_transactions[i].from = all_transactions[i].to
          /\ wallet_addresses[obs.origin[i]] = Lower(all_transactions[i].from)
          /\ wallet_addresses[obs.origin[i]] # all_transactions[i].from
          /\ all_transactions[i].is_outgoing
    /\ \E i \in DOMAIN all_transactions : ~all_transactions[i].is_outgoing

\* C16: no block fetch is issued in the scan of a watched entry that is
\* not an address, and when the loop over the watched list stands at an
\* entry, every valid entry before it has been scanned on the chain and
\* no other.
C16_InvalidAddressSkipped ==
    /\ obs.last.outcome # "none" => obs.last.addr \in ValidEntries
    /\ pc \in { "block", "tx" } => addrIdx \in ValidEntries
    /\ pc = "addr" =>
          Count(obs.scans, CurrentChain) =
              Cardinality({ i \in ValidEntries : i < addrIdx })

\* C16 witness: the list starts with an invalid entry; the loop is past
\* the valid entry after it, which was scanned with block fetches.
C16_Witness ==
    /\ pc = "addr"
    /\ addrIdx = 3
    /\ 1 \notin ValidEntries
    /\ 2 \in ValidEntries
    /\ Count(obs.scans, CurrentChain) = 1
    /\ obs.last.addr = 2
    /\ obs.last.chain = CurrentChain

\* C17: a call of fetch_detailed_transactions ends, whatever the range,
\* the watched list, the connected chains and the failures of the RPC calls.
C17_EventuallyReturns == (pc = "chain") ~> (pc = "done")

\* C17 witness: a run that returned after its last block fetch had failed
\* with a rate-limit signal, without the bound cutting it short.
C17_Witness ==
    /\ pc = "done"
    /\ returned = "frame"
    /\ ~BoundHit
    /\ obs.last.outcome = "ratelimit"
    /\ obs.last.prevOutcome = "error"

\* C18 as claimed: on one chain, over all watched addresses, a block fetch
\* never uses a lower delay than the block fetch before it.
C18_EscalatesPerChain ==
    [][ (obs'.last # obs.last /\ obs.last.outcome # "none"
         /\ obs'.last.chain = obs.last.chain)
        => obs'.last.delay >= obs.last.delay ]_vars

\* C18 amended: within the scan of one watched address, a block fetch
\* never uses a lower delay than the block fetch before it; the scan of
\* every address starts at the base delay.
C18_EscalatesPerScan ==
    /\ obs.last.prevOutcome # "none" => obs.last.delay >= obs.last.prevDelay
    /\ (obs.last.outcome # "none" /\ obs.last.prevOutcome = "none") =>
          obs.last.delay = BaseDelay

\* C18 witness: in the scan of the second watched address, a fetch that
\* follows a successful one keeps a delay raised earlier in that scan.
C18_Witness ==
    /\ obs.last.addr = 2
    /\ obs.last.prevOutcome = "ok"
    /\ obs.last.delay > BaseDelay
    /\ obs.last.delay = obs.last.prevDelay

\* C19: during a scan the request delay is between the base 0.2 s and the
\* cap 60 s, every block fetch is paused by a delay in that interval, and
\* a rate-limit signal on a fetch paused by 60 s leaves the delay at 60 s.
C19_DelayWithinBounds ==
    /\ pc \in { "block", "tx" } =>
          (BaseDelay <= request_delay /\ request_delay <= MaxDelay)
    /\ obs.last.outcome # "none" =>
          (BaseDelay <= obs.last.delay /\ obs.last.delay <= MaxDelay)
    /\ (/\ pc = "block"
        /\ obs.last.chain = CurrentChain
        /\ obs.last.addr = addrIdx
        /\ obs.last.outcome = "ratelimit"
        /\ obs.last.delay = MaxDelay) => request_delay = MaxDelay

\* C19 witness: a fetch paused by 60 s got a rate-limit signal, and the
\* delay of the scan is still 60 s.
C19_Witness ==
    /\ pc = "block"
    /\ obs.last.chain = CurrentChain
    /\ obs.last.addr = addrIdx
    /\ obs.last.outcome = "ratelimit"
    /\ obs.last.delay = MaxDelay
    /\ obs.last.prevOutcome = "ratelimit"
    /\ request_delay = MaxDelay

\* C20: after a block fetch that failed with an error other than a
\* rate-limit signal, the delay is the one the failed fetch was paused by
\* and no cooldown has been slept; the next block fetch of the scan is
\* paused by that same delay and is for the next lower height.
C20_PlainErrorSkipsBlock ==
    /\ (/\ pc = "block"
        /\ obs.last.chain = CurrentChain
        /\ obs.last.addr = addrIdx
        /\ obs.last.outcome = "error") =>
          /\ request_delay = obs.last.delay
          /\ obs.pauses = 0
          /\ block_num = obs.last.height - 1
    /\ obs.last.prevOutcome = "error" =>
          /\ obs.last.delay = obs.last.prevDelay
          /\ obs.last.pauses = 0
          /\ obs.last.height = obs.last.prevHeight - 1

\* C20 witness: a fetch that succeeds after a plain error, at a delay
\* that an earlier rate-limit signal had raised.
C20_Witness ==
    /\ obs.last.prevOutcome = "error"
    /\ obs.last.outcome = "ok"
    /\ obs.last.delay > BaseDelay
    /\ obs.last.height = obs.last.prevHeight - 1

\* C21: within one analyzer the symbol()/decimals() probe is issued at
\* most once per address string; a lookup that issued the probe leaves an
\* entry stored under the address, the answer it returned, and a lookup
\* of a stored address returns the entry with no on-chain call.
C21_OneProbePerToken ==
    /\ \A k \in DOMAIN obs.tokenProbes : obs.tokenProbes[k] <= 1
    /\ \A k \in DOMAIN obs.tokenProbes :
          obs.tokenProbes[k] = 1 => k[2] \in DOMAIN analyzers[k[1]].token_cache
    /\ obs.call.op = "_get_token_info" =>
          LET cache == analyzers[obs.call.chain].token_cache
          IN  /\ obs.call.network = 1 =>
                    (/\ obs.call.address \in DOMAIN cache
                     /\ cache[obs.call.address] = obs.call.info)
              /\ obs.call.hit =>
                    (/\ obs.call.network = 0
                     /\ cache[obs.call.address] = obs.call.info)

\* C21 witness: a lookup answered from the entry that an earlier lookup
\* stored when the probe raised, although the probe would now answer.
C21_Witness ==
    /\ obs.call.op = "_get_token_info"
    /\ obs.call.hit
    /\ obs.call.tok.ok
    /\ obs.call.info.type = sERC721
    /\ obs.call.network = 0
    /\ Count(obs.tokenProbes, << obs.call.chain, obs.call.address >>) = 1

\* the cache a direct lookup works on, per chain
CacheOf(chain) ==
    IF obs.call.op = "get_contract_info"
    THEN analyzers[chain].contract_cache
    ELSE analyzers[chain].token_cache

\* C22 as claimed: a lookup of an address that the cache of another chain
\* holds returns that entry and issues no call.
C22_SharedAcrossChains ==
    obs.call.op \in { "get_contract_info", "_get_token_info" } =>
        \A c \in Chains \ { obs.call.chain } :
            obs.call.address \in DOMAIN CacheOf(c) =>
                /\ obs.call.network = 0
                /\ obs.call.info = CacheOf(c)[obs.call.address]

\* C22 amended: each chain's analyzer has caches of its own.  A lookup is
\* answered without a call exactly from the entry stored under the address
\* in the cache of its own chain; otherwise it issues its calls, whatever
\* the caches of the other chains hold, and stores what it found in the
\* cache of its own chain.
C22_CachesPerChain ==
    obs.call.op \in { "get_contract_info", "_get_token_info" } =>
        /\ obs.call.hit =>
              (/\ obs.call.network = 0
               /\ obs.call.info = CacheOf(obs.call.chain)[obs.call.address])
        /\ (~obs.call.hit /\ obs.call.address \in ChecksumAddresses) =>
              obs.call.network >= 1
        /\ (~obs.call.hit /\ obs.call.op = "get_contract_info") =>
              obs.call.network >= 1
        /\ (~obs.call.hit /\ obs.call.info.type # sUnknown) =>
              (/\ obs.call.address \in DOMAIN CacheOf(obs.call.chain)
               /\ obs.call.info = CacheOf(obs.call.chain)[obs.call.address])

\* C22 witness: a contract lookup that issued its calls and stored a
\* result on its own chain, while the cache of the other chain holds
\* another entry for the same address.
C22_Witness ==
    /\ obs.call.op = "get_contract_info"
    /\ ~obs.call.hit
    /\ obs.call.network >= 1
    /\ obs.call.address \in DOMAIN CacheOf(obs.call.chain)
    /\ \E c \in Chains \ { obs.call.chain } :
          /\ obs.call.address \in DOMAIN CacheOf(c)
          /\ CacheOf(c)[obs.call.address] # obs.call.info

\* the heights of `chain` for which a block fetch was issued
FetchedHeights(chain) == { k[2] : k \in { x \in DOMAIN obs.blockFetches : x[1] = chain } }

\* C23: when the basic fetcher, called with a range [start_block,
\* end_block], end_block >= start_block, has finished the scan of the
\* first watched address on the first chain, it has fetched every height
\* from end_block down to and including start_block.
C23_BasicScansWholeRange ==
    (/\ pc = "b_addr"
     /\ chainIdx = 1
     /\ addrIdx = 2
     /\ ~obs.defaultEnd
     /\ end_block >= start_block
     /\ Count(obs.scans, CurrentChain) = 1) =>
        /\ start_block..end_block \subseteq FetchedHeights(CurrentChain)
        /\ obs.last.height = start_block

\* the block at hand was left at transaction txIdx, before its end, and the
\* scan is at a lower height
LeftBlock ==
    /\ pc = "block"
    /\ txIdx \in 1..Len(block)
    /\ block[txIdx].blockNumber > block_num

\* the records the scan at hand made from the block that was left come
\* from transactions before the one it was left at
RestOfBlockDropped ==
    LeftBlock =>
        \A i \in DOMAIN all_transactions :
            (/\ all_transactions[i].chain = CurrentChain
             /\ obs.origin[i] = addrIdx
             /\ all_transactions[i].block_number = block[txIdx].blockNumber) =>
                \E j \in 1..(txIdx - 1) : block[j].hash = all_transactions[i].hash

\* C24: a step of the detailed fetcher at a transaction that touches the
\* watched address and that appends no record for it (the receipt fetch or
\* the assembly of the record raised) leaves the records collected as they
\* are and moves the same scan to the next lower height; and as long as the
\* scan goes on below a block that was left this way, it has no record from
\* the transaction it was left at or from a later one of that block.
C24_FailureSkipsRestOfBlock ==
    [][ /\ (/\ pc = "tx"
            /\ txIdx <= Len(block)
            /\ Touches(block[txIdx].from, block[txIdx].to, CurrentAddress)
            /\ Len(all_transactions') # Len(all_transactions) + 1) =>
               /\ all_transactions' = all_transactions
               /\ pc' = "block"
               /\ block_num' = block_num - 1
               /\ chainIdx' = chainIdx
               /\ addrIdx' = addrIdx
        /\ RestOfBlockDropped' ]_vars

\* C24 witness: the second matching transaction of a block failed after
\* the first was recorded; the record of the first is the latest one and
\* the scan is at the next lower height.
C24_Witness ==
    /\ LeftBlock
    /\ txIdx = 2
    /\ block_num = block[2].blockNumber - 1
    /\ Touches(block[2].from, block[2].to, CurrentAddress)
    /\ all_transactions # << >>
    /\ all_transactions[Len(all_transactions)].hash = block[1].hash
    /\ all_transactions[Len(all_transactions)].chain = CurrentChain
    /\ obs.origin[Len(all_transactions)] = addrIdx

\* C25: a run of the detailed fetcher with max_transactions = 0 returns
\* only by exhausting its loops: when it has returned, every connected
\* chain has had one scan per valid watched address and every height of
\* the block range has been fetched once in each of these scans.
C25_ZeroIsNoBound ==
    (max_transactions = 0 /\ pc = "done" /\ returned = "frame") =>
        /\ chainIdx > Len(web3_connections)
        /\ \A c \in ChainsOf(web3_connections) :
              /\ Count(obs.scans, c) = Cardinality(ValidEntries)
              /\ \A h \in start_block..end_block :
                    Count(obs.blockFetches, <<c, h>>) = Cardinality(ValidEntries)

\* C25 witness: a run with max_transactions = 0 has returned with more
\* records than the largest bound tried, after fetching the lowest height.
C25_Witness ==
    /\ max_transactions = 0
    /\ pc = "done"
    /\ returned = "frame"
    /\ Len(all_transactions) > MaxLimit
    /\ web3_connections # << >>
    /\ end_block > start_block
    /\ obs.last.height = start_block
====
